---- MODULE Spec2Model ----
(***************************************************************************)
(* A model of sapling/client.py: the SaplingClient class, whose methods    *)
(* each build a URL and a JSON payload, issue one requests.post and map    *)
(* the response to a returned value or a raised exception.                 *)
(***************************************************************************)
EXTENDS Integers, Sequences, FiniteSets, TLC

VARIABLES
    ctor,       \* instance |-> the arguments its constructor was called with
    clients,    \* instance |-> the attributes set by __init__
    pc,         \* "idle": no call in progress; "returned": a method has run
    call,       \* the method that ran: instance, method name, arguments
    wire,       \* the requests.post invocations the method made, in order
    resp,       \* the response the transport gave the method, if any
    outcome     \* what the method did: returned a value or raised

vars == <<ctor, clients, pc, call, wire, resp, outcome>>

(***************************************************************************)
(* Bounds of the model.                                                    *)
(***************************************************************************)
\* At most this many optional arguments are passed in one call.
MaxSupplied == 1

(***************************************************************************)
(* Python values. Every value is a record of its type and its repr, so     *)
(* that values of different types can be compared.                         *)
(***************************************************************************)
Val(t, v) == [t |-> t, v |-> v]
None == Val("NoneType", "None")
PyFalse == Val("bool", "False")
PyTrue == Val("bool", "True")
Str(s) == Val("str", s)
PyInt(n) == Val("int", ToString(n))
Dict(s) == Val("dict", s)
List(s) == Val("list", s)
Uuid(s) == Val("UUID", s)
\* An argument the caller did not pass: the parameter takes its default.
Omitted == Val("<omitted>", "")

\* Python truth value testing.
Truthy(x) ==
    CASE x.t = "NoneType" -> FALSE
      [] x.t = "bool" -> x.v = "True"
      [] x.t = "int" -> x.v # "0"
      [] x.t = "str" -> x.v # ""
      [] x.t = "dict" -> x.v # "{}"
      [] x.t = "list" -> x.v # "[]"
      [] OTHER -> TRUE

\* Faulty variant of PyOr: a if a is not None else b
PyOrPresence(a, b) == IF a # None THEN a ELSE b

\* a or b
PyOr(a, b) == IF Truthy(a) THEN a ELSE b

\* str(x), and {x} in an f-string
PyStr(x) == Str(x.v)

\* a + b on strings
Concat(a, b) == Str(a.v \o b.v)

\* The value a parameter is bound to: the argument, or the signature's default.
Bind(arg, default) == IF arg = Omitted THEN default ELSE arg

\* data[k] = v
Put(d, k, v) == (k :> v) @@ d

\* Faulty variant of SetIfNotNone: if v: data[k] = v
SetIfNotNoneTruthy(d, k, v) == IF Truthy(v) THEN Put(d, k, v) ELSE d

\* if v is not None: data[k] = v
SetIfNotNone(d, k, v) == IF v # None THEN Put(d, k, v) ELSE d

(***************************************************************************)
(* Construction.                                                           *)
(***************************************************************************)
DefaultTimeout == 120

Clients == {"c1", "c2"}

\* uuid.uuid4() as called by __init__ for each instance.
MintedAtConstruction(c) == Uuid("uuid-of-" \o c)
\* uuid.uuid4() as called inside a method.
Uuids == {Uuid("uuid-a"), Uuid("uuid-b")}

\* Faulty variant of SaplingClient: the base URL is joined with a "/".
SaplingClientSep(api_key, timeout, hostname, pathname, uuid4) ==
    LET h == PyOr(Bind(hostname, None), Str("https://api.sapling.ai"))
        p == PyOr(Bind(pathname, None), Str("/api/v1/"))
    IN  [api_key |-> api_key,
         timeout |-> Bind(timeout, PyInt(DefaultTimeout)),
         hostname |-> h,
         pathname |-> p,
         url_endpoint |-> Concat(Concat(h, Str("/")), p),
         default_session_id |-> PyStr(uuid4)]

\* __init__: the attributes of a new instance; uuid4 is the value uuid.uuid4()
\* returns.
SaplingClient(api_key, timeout, hostname, pathname, uuid4) ==
    LET h == PyOr(Bind(hostname, None), Str("https://api.sapling.ai"))
        p == PyOr(Bind(pathname, None), Str("/api/v1/"))
    IN  [api_key |-> api_key,
         timeout |-> Bind(timeout, PyInt(DefaultTimeout)),
         hostname |-> h,
         pathname |-> p,
         url_endpoint |-> Concat(h, p),
         default_session_id |-> PyStr(uuid4)]

\* The hostname and pathname arguments a client is constructed with.
HostArgs == {Omitted, Str(""), Str("http://localhost:5000")}
PathArgs == {Omitted, Str(""), Str("/v2/")}

\* The constructor calls of the two instances: the first varies the URL
\* arguments and keeps the default timeout, the second sets a timeout.
CtorArgs(c) ==
    IF c = "c1"
    THEN {[api_key |-> Str("KEY-1"), timeout |-> Omitted,
           hostname |-> h, pathname |-> p] : h \in HostArgs, p \in PathArgs}
    ELSE {[api_key |-> Str("KEY-2"), timeout |-> PyInt(5),
           hostname |-> hp[1], pathname |-> hp[2]] :
              hp \in {<<Omitted, Omitted>>, <<Str("https://sdk.example"), Str("/api/v2/")>>}}

(***************************************************************************)
(* The transport: requests.post and the Response it returns.               *)
(***************************************************************************)
Statuses == {199, 200, 299, 300, 500}

\* Response bodies: one that is not JSON, two objects {"edits": L}, one array.
NotJson == "Bad Gateway"
EditsEmpty == "{\"edits\": []}"
EditsOne == "{\"edits\": [\"e1\"]}"
JsonArray == "[\"e1\"]"
Texts == {NotJson, EditsEmpty, EditsOne, JsonArray}

NoResp == [received |-> FALSE, status_code |-> 0, text |-> ""]
Response(status_code, text) ==
    [received |-> TRUE, status_code |-> status_code, text |-> text]

\* What the network does with a request that was sent: it answers, or the
\* transport raises its own exception.
NetworkOutcomes ==
    {[raises |-> "", resp |-> Response(s, t)] : s \in Statuses, t \in Texts}
    \cup {[raises |-> e, resp |-> NoResp] : e \in {"Timeout", "ConnectionError"}}

\* json.dumps accepts None, bool, int, str, dict and list; not a UUID object.
Serializable(data) ==
    \A k \in DOMAIN data : data[k].t \in {"NoneType", "bool", "int", "str", "dict", "list"}

\* requests.post(url, json=data, timeout=...): the body is encoded with
\* json.dumps before anything is sent; a payload that cannot be encoded makes
\* json.dumps raise TypeError, which requests.post lets through.
requests_post(url, data, timeout, net) ==
    IF Serializable(data) THEN net ELSE [raises |-> "TypeError", resp |-> NoResp]

\* Response.json(): the decoded body, or a decoding error.
resp_json(r) ==
    CASE r.text \in {EditsEmpty, EditsOne} -> [ok |-> TRUE, value |-> Dict(r.text)]
      [] r.text = JsonArray -> [ok |-> TRUE, value |-> List(r.text)]
      [] OTHER -> [ok |-> FALSE, value |-> None]

\* The list L of a decoded body {"edits": L}.
EditsOf(text) ==
    CASE text = EditsEmpty -> List("[]")
      [] text = EditsOne -> List("[\"e1\"]")
      [] OTHER -> None

(***************************************************************************)
(* What a method does: return a value or raise.                            *)
(***************************************************************************)
NoOutcome == [kind |-> "none", value |-> None, exc |-> "", msg |-> ""]
Return(v) == [kind |-> "return", value |-> v, exc |-> "", msg |-> ""]
Raise(exc, msg) == [kind |-> "raise", value |-> None, exc |-> exc, msg |-> msg]

\* Faulty variant of IsSuccess: 200 <= resp.status_code <= 300
IsSuccessInclusive(status_code) == 200 <= status_code /\ status_code <= 300

\* 200 <= resp.status_code < 300
IsSuccess(status_code) == 200 <= status_code /\ status_code < 300

\* raise Exception(f'HTTP {resp.status_code}: {resp.text}')
RaiseHttp(r) ==
    Raise("Exception", "HTTP " \o ToString(r.status_code) \o ": " \o r.text)

\* raise Exception(f'HTTP {resp.status_code}: resp.text'): the text after
\* the colon is outside the braces and is not interpolated.
RaiseHttpLiteral(r) ==
    Raise("Exception", "HTTP " \o ToString(r.status_code) \o ": " \o "resp.text")

\* return resp.json()
ReturnJson(r) ==
    LET j == resp_json(r)
    IN  IF j.ok THEN Return(j.value) ELSE Raise("JSONDecodeError", "")

\* Faulty variant of ReturnEdits: return resp.json()
ReturnEditsWhole(r) == ReturnJson(r)

\* resp_json = resp.json(); return resp_json.get('edits')
ReturnEdits(r) ==
    LET j == resp_json(r)
    IN  IF ~j.ok THEN Raise("JSONDecodeError", "")
        ELSE IF j.value.t # "dict" THEN Raise("AttributeError", "")
        ELSE Return(EditsOf(j.value.v))

(***************************************************************************)
(* Arguments of a call.                                                    *)
(***************************************************************************)
\* The values an optional argument is passed with: None, a falsy value and
\* a truthy value of the parameter's documented type.
ArgValues(p) ==
    CASE p \in {"session_id"} -> {None, Str(""), Str("doc-1")}
      [] p \in {"lang"} -> {None, Str(""), Str("en")}
      [] p \in {"variety"} -> {None, Str(""), Str("us-variety")}
      [] p \in {"user_id"} -> {None, Str(""), Str("user-1")}
      [] p \in {"medical", "auto_apply", "is_anon_user", "multiple_edits", "sent_scores"} ->
            {None, PyFalse, PyTrue}
      [] p \in {"advanced_edits", "user_data"} -> {None, Dict("{}"), Dict("{'dei': True}")}
      [] p \in {"min_length", "step_size"} -> {None, PyInt(0), PyInt(3)}

AllArgValues ==
    UNION {ArgValues(p) : p \in {"session_id", "lang", "variety", "user_id", "medical",
                                  "advanced_edits", "min_length"}}

\* The calls of a method: the required arguments as given, and at most
\* MaxSupplied of the optional ones passed, the others left out.
Calls(required, optional) ==
    {[p \in DOMAIN required \cup optional |->
         IF p \in DOMAIN required THEN required[p]
         ELSE IF p \in DOMAIN f THEN f[p] ELSE Omitted] :
       f \in UNION {{g \in [S -> AllArgValues] : \A p \in S : g[p] \in ArgValues(p)} :
                      S \in {T \in SUBSET optional : Cardinality(T) <= MaxSupplied}}}

(***************************************************************************)
(* The methods: the URL and the payload each one builds (its signature's   *)
(* defaults applied), and what it does with the response.                  *)
(***************************************************************************)
edits_optional ==
    {"session_id", "lang", "variety", "medical", "auto_apply", "advanced_edits",
     "user_id", "is_anon_user"}
\* Faulty variant of edits_defaults: auto_apply=None
edits_defaults_none ==
    [p \in edits_optional |-> None]

\* The defaults of the signature: auto_apply=False, the others None.
edits_defaults ==
    [p \in edits_optional |-> IF p = "auto_apply" THEN PyFalse ELSE None]

edits_request(self, a) ==
    LET arg(p) == Bind(a[p], edits_defaults[p])
        session_id == PyOr(arg("session_id"), self.default_session_id)
        d0 == [key |-> self.api_key, text |-> a.text, session_id |-> session_id]
        d1 == SetIfNotNone(d0, "lang", arg("lang"))
        d2 == SetIfNotNone(d1, "variety", arg("variety"))
        d3 == SetIfNotNone(d2, "medical", arg("medical"))
        d4 == SetIfNotNone(d3, "auto_apply", arg("auto_apply"))
        d5 == SetIfNotNone(d4, "advanced_edits", arg("advanced_edits"))
        d6 == SetIfNotNone(d5, "user_id", arg("user_id"))
        d7 == SetIfNotNone(d6, "is_anon_user", arg("is_anon_user"))
    IN  [url |-> Concat(self.url_endpoint, Str("edits")), data |-> d7]

edits_result(r) == IF IsSuccess(r.status_code) THEN ReturnJson(r) ELSE RaiseHttp(r)

accept_edit_optional == {"session_id", "user_id"}

accept_edit_request(self, a) ==
    LET session_id == PyOr(Bind(a.session_id, None), self.default_session_id)
        d0 == [key |-> self.api_key, session_id |-> session_id]
        d1 == SetIfNotNone(d0, "user_id", Bind(a.user_id, None))
    IN  [url |-> Concat(Concat(Concat(self.url_endpoint, Str("edits/")), PyStr(a.edit_uuid)),
                        Str("/accept")),
         data |-> d1]

accept_edit_result(r) == IF IsSuccess(r.status_code) THEN Return(None) ELSE RaiseHttpLiteral(r)

reject_edit_optional == {"session_id", "user_id"}

reject_edit_request(self, a) ==
    LET session_id == PyOr(Bind(a.session_id, None), self.default_session_id)
        d0 == [key |-> self.api_key, session_id |-> session_id]
        d1 == SetIfNotNone(d0, "user_id", Bind(a.user_id, None))
    IN  [url |-> Concat(Concat(Concat(self.url_endpoint, Str("edits/")), PyStr(a.edit_uuid)),
                        Str("/reject")),
         data |-> d1]

reject_edit_result(r) == IF IsSuccess(r.status_code) THEN Return(None) ELSE RaiseHttpLiteral(r)

spellcheck_optional ==
    {"session_id", "min_length", "multiple_edits", "lang", "auto_apply", "variety",
     "user_data", "user_id", "is_anon_user"}
spellcheck_defaults ==
    [p \in spellcheck_optional |-> IF p = "auto_apply" THEN PyFalse ELSE None]

spellcheck_request(self, a) ==
    LET arg(p) == Bind(a[p], spellcheck_defaults[p])
        session_id == PyOr(arg("session_id"), self.default_session_id)
        d0 == [key |-> self.api_key, text |-> a.text, session_id |-> session_id]
        d1 == SetIfNotNone(d0, "min_length", arg("min_length"))
        d2 == SetIfNotNone(d1, "multiple_edits", arg("multiple_edits"))
        d3 == SetIfNotNone(d2, "lang", arg("lang"))
        d4 == SetIfNotNone(d3, "auto_apply", arg("auto_apply"))
        d5 == SetIfNotNone(d4, "variety", arg("variety"))
        d6 == SetIfNotNone(d5, "user_data", arg("user_data"))
        d7 == SetIfNotNone(d6, "user_id", arg("user_id"))
        d8 == SetIfNotNone(d7, "is_anon_user", arg("is_anon_user"))
    IN  [url |-> Concat(self.url_endpoint, Str("spellcheck")), data |-> d8]

spellcheck_result(r) == IF IsSuccess(r.status_code) THEN ReturnEdits(r) ELSE RaiseHttp(r)

complete_optional == {"session_id"}

complete_request(self, a) ==
    LET session_id == PyOr(Bind(a.session_id, None), self.default_session_id)
    IN  [url |-> Concat(self.url_endpoint, Str("complete")),
         data |-> [key |-> self.api_key, query |-> a.query, session_id |-> session_id]]

complete_result(r) == IF IsSuccess(r.status_code) THEN ReturnJson(r) ELSE RaiseHttp(r)

accept_complete_optional == {"session_id"}

\* The context sent with an accepted completion: {'query': ..., 'completion': ...}
Context(query, completion) ==
    Dict("{'query': '" \o query.v \o "', 'completion': '" \o completion.v \o "'}")

\* uuid4 is the value uuid.uuid4() returns when the method calls it.
accept_complete_request(self, a, uuid4) ==
    LET session_id == PyOr(Bind(a.session_id, None), uuid4)
    IN  [url |-> Concat(Concat(Concat(self.url_endpoint, Str("complete/")),
                               PyStr(a.complete_uuid)), Str("/accept")),
         data |-> [key |-> self.api_key, session_id |-> session_id,
                   context |-> Context(a.query, a.completion)]]

accept_complete_result(r) ==
    IF IsSuccess(r.status_code) THEN Return(None) ELSE RaiseHttpLiteral(r)

aidetect_optional == {"sent_scores"}

aidetect_request(self, a) ==
    LET d0 == [key |-> self.api_key, text |-> a.text]
        d1 == SetIfNotNone(d0, "sent_scores", Bind(a.sent_scores, None))
    IN  [url |-> Concat(self.url_endpoint, Str("aidetect")), data |-> d1]

aidetect_result(r) == IF IsSuccess(r.status_code) THEN ReturnJson(r) ELSE RaiseHttpLiteral(r)

chunk_text_optional == {"step_size"}

chunk_text_request(self, a) ==
    LET d0 == [key |-> self.api_key, text |-> a.text, max_length |-> a.max_length]
        d1 == SetIfNotNone(d0, "step_size", Bind(a.step_size, None))
    IN  [url |-> Concat(self.url_endpoint, Str("ingest/chunk_text")), data |-> d1]

chunk_text_result(r) == IF IsSuccess(r.status_code) THEN ReturnJson(r) ELSE RaiseHttp(r)

chunk_html_optional == {"step_size"}

\* Faulty variant of chunk_html_request: the payload is built without the key.
chunk_html_request_keyless(self, a) ==
    LET d0 == [html |-> a.html, max_length |-> a.max_length]
        d1 == SetIfNotNone(d0, "step_size", Bind(a.step_size, None))
    IN  [url |-> Concat(self.url_endpoint, Str("ingest/chunk_html")), data |-> d1]

chunk_html_request(self, a) ==
    LET d0 == [key |-> self.api_key, html |-> a.html, max_length |-> a.max_length]
        d1 == SetIfNotNone(d0, "step_size", Bind(a.step_size, None))
    IN  [url |-> Concat(self.url_endpoint, Str("ingest/chunk_html")), data |-> d1]

chunk_html_result(r) == IF IsSuccess(r.status_code) THEN ReturnJson(r) ELSE RaiseHttp(r)

\* postprocess has no optional parameter: session_id is required.
postprocess_request(self, a) ==
    [url |-> Concat(self.url_endpoint, Str("postprocess")),
     data |-> [key |-> self.api_key, text |-> a.text, session_id |-> a.session_id,
               operations |-> a.operations]]

postprocess_result(r) == IF IsSuccess(r.status_code) THEN ReturnJson(r) ELSE RaiseHttp(r)

(***************************************************************************)
(* One call of a method: it builds the request, invokes requests.post once *)
(* with the instance's timeout, and returns or raises. An exception raised *)
(* by requests.post is not caught.                                         *)
(***************************************************************************)
\* Faulty variant of PostArgs: the default timeout instead of the instance's.
PostArgsFixedTimeout(self, req) ==
    [url |-> req.url, json |-> req.data, timeout |-> PyInt(DefaultTimeout)]

\* requests.post(url, json=data, timeout=self.timeout)
PostArgs(self, req) ==
    [url |-> req.url, json |-> req.data, timeout |-> self.timeout]

\* Faulty variant of Invoke: the session id of the call is kept on the
\* instance (self.default_session_id = session_id).
InvokeKeepsSession(c, op, a, req, net, tail) ==
    LET post == PostArgs(clients[c], req)
        sent == requests_post(post.url, post.json, post.timeout, net)
    IN  /\ pc' = "returned"
        /\ call' = [client |-> c, op |-> op, args |-> a]
        /\ wire' = <<post>>
        /\ resp' = sent.resp
        /\ outcome' = IF sent.raises # "" THEN Raise(sent.raises, "") ELSE tail
        /\ clients' = IF "session_id" \in DOMAIN req.data
                       THEN [clients EXCEPT ![c].default_session_id = req.data.session_id]
                       ELSE clients
        /\ UNCHANGED ctor

\* tail is what the method's last lines do with the response in net.
Invoke(c, op, a, req, net, tail) ==
    LET post == PostArgs(clients[c], req)
        sent == requests_post(post.url, post.json, post.timeout, net)
    IN  /\ pc' = "returned"
        /\ call' = [client |-> c, op |-> op, args |-> a]
        /\ wire' = <<post>>
        /\ resp' = sent.resp
        /\ outcome' = IF sent.raises # "" THEN Raise(sent.raises, "") ELSE tail
        /\ UNCHANGED <<ctor, clients>>

edits ==
    /\ pc = "idle"
    /\ \E a \in Calls([text |-> Str("Lets get started!")], edits_optional) :
         \E c \in Clients, net \in NetworkOutcomes :
           Invoke(c, "edits", a, edits_request(clients[c], a), net, edits_result(net.resp))

accept_edit ==
    /\ pc = "idle"
    /\ \E a \in Calls([edit_uuid |-> Str("edit-1")], accept_edit_optional) :
         \E c \in Clients, net \in NetworkOutcomes :
           Invoke(c, "accept_edit", a, accept_edit_request(clients[c], a), net, accept_edit_result(net.resp))

reject_edit ==
    /\ pc = "idle"
    /\ \E a \in Calls([edit_uuid |-> Str("edit-1")], reject_edit_optional) :
         \E c \in Clients, net \in NetworkOutcomes :
           Invoke(c, "reject_edit", a, reject_edit_request(clients[c], a), net, reject_edit_result(net.resp))

spellcheck ==
    /\ pc = "idle"
    /\ \E a \in Calls([text |-> Str("Lets get started!")], spellcheck_optional) :
         \E c \in Clients, net \in NetworkOutcomes :
           Invoke(c, "spellcheck", a, spellcheck_request(clients[c], a), net, spellcheck_result(net.resp))

complete ==
    /\ pc = "idle"
    /\ \E a \in Calls([query |-> Str("Hi how are")], complete_optional) :
         \E c \in Clients, net \in NetworkOutcomes :
           Invoke(c, "complete", a, complete_request(clients[c], a), net, complete_result(net.resp))

accept_complete ==
    /\ pc = "idle"
    /\ \E a \in Calls([complete_uuid |-> Str("complete-1"), query |-> Str("Hi how are"),
                         completion |-> Str(" you")], accept_complete_optional) :
         \E c \in Clients, net \in NetworkOutcomes, uuid4 \in Uuids :
           Invoke(c, "accept_complete", a, accept_complete_request(clients[c], a, uuid4), net,
                  accept_complete_result(net.resp))

aidetect ==
    /\ pc = "idle"
    /\ \E a \in Calls([text |-> Str("Lets get started!")], aidetect_optional) :
         \E c \in Clients, net \in NetworkOutcomes :
           Invoke(c, "aidetect", a, aidetect_request(clients[c], a), net, aidetect_result(net.resp))

chunk_text ==
    /\ pc = "idle"
    /\ \E a \in Calls([text |-> Str("Lets get started!"), max_length |-> PyInt(100)],
                        chunk_text_optional) :
         \E c \in Clients, net \in NetworkOutcomes :
           Invoke(c, "chunk_text", a, chunk_text_request(clients[c], a), net, chunk_text_result(net.resp))

chunk_html ==
    /\ pc = "idle"
    /\ \E a \in Calls([html |-> Str("<p>Lets get started!</p>"), max_length |-> PyInt(100)],
                        chunk_html_optional) :
         \E c \in Clients, net \in NetworkOutcomes :
           Invoke(c, "chunk_html", a, chunk_html_request(clients[c], a), net, chunk_html_result(net.resp))

postprocess ==
    /\ pc = "idle"
    /\ \E c \in Clients, net \in NetworkOutcomes, sid \in ArgValues("session_id") :
         \E a \in Calls([text |-> Str("lets get started"), session_id |-> sid,
                         operations |-> List("['capitalize']")], {}) :
           Invoke(c, "postprocess", a, postprocess_request(clients[c], a), net, postprocess_result(net.resp))

\* The method's frame is left: the caller has the result, the locals
\* (url, data, resp) are gone, and the instance can be called again.
NoCall == [client |-> "", op |-> "", args |-> <<>>]
Exit ==
    /\ pc = "returned"
    /\ pc' = "idle"
    /\ call' = NoCall
    /\ wire' = <<>>
    /\ resp' = NoResp
    /\ outcome' = NoOutcome
    /\ UNCHANGED <<ctor, clients>>

Init ==
    /\ ctor \in {k \in [Clients -> UNION {CtorArgs(c) : c \in Clients}] :
                    \A c \in Clients : k[c] \in CtorArgs(c)}
    /\ clients = [c \in Clients |->
                    SaplingClient(ctor[c].api_key, ctor[c].timeout, ctor[c].hostname,
                                  ctor[c].pathname, MintedAtConstruction(c))]
    /\ pc = "idle"
    /\ call = NoCall
    /\ wire = <<>>
    /\ resp = NoResp
    /\ outcome = NoOutcome

Next ==
    \/ edits
    \/ accept_edit
    \/ reject_edit
    \/ spellcheck
    \/ complete
    \/ accept_complete
    \/ aidetect
    \/ chunk_text
    \/ chunk_html
    \/ postprocess
    \/ Exit

Spec == Init /\ [][Next]_vars

(***************************************************************************)
(* Vocabulary of the properties. Each is read in a state where a method    *)
(* has run (pc = "returned").                                              *)
(***************************************************************************)
Returned == pc = "returned"
Self == clients[call.client]
Sent == wire[1].json
Has(p) == p \in DOMAIN call.args
Arg(p) == IF Has(p) THEN call.args[p] ELSE Omitted
\* The caller passed a value for p, and the value is not None.
Supplied(p) == Arg(p) \notin {Omitted, None}

In2xx == 200 <= resp.status_code /\ resp.status_code < 300
FeedbackOps == {"accept_edit", "reject_edit", "accept_complete"}
\* The methods that fall back to the instance's default session id.
DefaultingOps == {"edits", "accept_edit", "reject_edit", "spellcheck", "complete"}
\* The methods that have a session_id parameter.
SessionOps == DefaultingOps \cup {"accept_complete", "postprocess"}
OptionalFields ==
    {"lang", "variety", "medical", "auto_apply", "advanced_edits", "user_id",
     "is_anon_user", "min_length", "multiple_edits", "user_data", "sent_scores", "step_size"}
\* The payload fields a method always sends besides key and session_id.
RequiredFields ==
    CASE call.op \in {"edits", "spellcheck", "aidetect"} -> {"text"}
      [] call.op \in {"accept_edit", "reject_edit"} -> {}
      [] call.op = "complete" -> {"query"}
      [] call.op = "accept_complete" -> {"context"}
      [] call.op = "chunk_text" -> {"text", "max_length"}
      [] call.op = "chunk_html" -> {"html", "max_length"}
      [] call.op = "postprocess" -> {"text", "operations"}
\* The error message names the status code of the response.
ExposesStatus ==
    /\ outcome.kind = "raise"
    /\ outcome.exc = "Exception"
    /\ \E t \in Texts \cup {"resp.text"} :
          outcome.msg = "HTTP " \o ToString(resp.status_code) \o ": " \o t
\* The path each method appends to the base URL.
Suffix ==
    CASE call.op = "accept_edit" -> "edits/" \o call.args.edit_uuid.v \o "/accept"
      [] call.op = "reject_edit" -> "edits/" \o call.args.edit_uuid.v \o "/reject"
      [] call.op = "accept_complete" -> "complete/" \o call.args.complete_uuid.v \o "/accept"
      [] call.op = "chunk_text" -> "ingest/chunk_text"
      [] call.op = "chunk_html" -> "ingest/chunk_html"
      [] OTHER -> call.op

(***************************************************************************)
(* C1. Any two calls made on one instance without an explicit session id   *)
(* transmit the same session_id, the instance's default_session_id, for    *)
(* edits, accept_edit, reject_edit, spellcheck, complete and               *)
(* accept_complete alike. accept_complete breaks it: it transmits a UUID   *)
(* minted in the call.                                                     *)
(***************************************************************************)
C1_SameDefaultSession ==
    (/\ Returned
     /\ call.op \in DefaultingOps \cup {"accept_complete"}
     /\ Arg("session_id") \in {Omitted, None})
    => Sent.session_id = Self.default_session_id

(***************************************************************************)
(* C2. As claimed: for every status code the transport returns, the call   *)
(* completes normally iff 200 <= s < 300, and otherwise raises an error    *)
(* exposing s; the feedback operations return nothing on success.          *)
(***************************************************************************)
C2_CompletesIffSuccess ==
    (Returned /\ resp.received)
    => /\ outcome.kind = "return" <=> In2xx
       /\ ~In2xx => ExposesStatus
       /\ (call.op \in FeedbackOps /\ outcome.kind = "return") => outcome.value = None

\* The body decodes to what the method needs: JSON, and for spellcheck a
\* JSON object.
BodyDecodes ==
    IF call.op = "spellcheck" THEN resp.text \in {EditsEmpty, EditsOne}
    ELSE resp.text \in {EditsEmpty, EditsOne, JsonArray}

(***************************************************************************)
(* C2, amended. The status-code error, exposing s, is raised iff s is      *)
(* outside [200, 300). On a 2xx status the feedback operations return      *)
(* None; the others return iff the body decodes, and otherwise the         *)
(* decoding error reaches the caller.                                      *)
(***************************************************************************)
C2_StatusErrorIffNotSuccess ==
    (Returned /\ resp.received)
    => /\ (outcome.kind = "raise" /\ outcome.exc = "Exception") <=> ~In2xx
       /\ ~In2xx => ExposesStatus
       /\ (In2xx /\ call.op \in FeedbackOps) => outcome = Return(None)
       /\ (In2xx /\ call.op \notin FeedbackOps) =>
             /\ outcome.kind = "return" <=> BodyDecodes
             /\ ~BodyDecodes => outcome.exc \in {"JSONDecodeError", "AttributeError"}

C2_Witness ==
    /\ Returned
    /\ call.op = "accept_edit"
    /\ resp.received
    /\ resp.status_code = 299
    /\ outcome = Return(None)

(***************************************************************************)
(* C3. Whenever the status code is outside [200, 300), the error raised    *)
(* carries the status code and the body text of that response, for every   *)
(* operation. accept_edit, reject_edit, accept_complete and aidetect break *)
(* it: their message ends in the literal text resp.text.                   *)
(***************************************************************************)
C3_ErrorCarriesBody ==
    (Returned /\ resp.received /\ ~In2xx)
    => /\ outcome.kind = "raise"
       /\ outcome.msg = "HTTP " \o ToString(resp.status_code) \o ": " \o resp.text

C5_KeyAndSessionEverywhere ==
    Returned
    => /\ "key" \in DOMAIN Sent
       /\ Sent.key = Self.api_key
       /\ "session_id" \in DOMAIN Sent
       /\ Truthy(Bind(Arg("session_id"), None)) => Sent.session_id = Arg("session_id")

(***************************************************************************)
(* C5, amended. Every operation sends key, equal to the credential. The    *)
(* operations that take a session id (edits, accept_edit, reject_edit,     *)
(* spellcheck, complete, accept_complete, postprocess) also send           *)
(* session_id, the value the operation resolved: the caller's if truthy,   *)
(* else the instance's default (accept_complete: else a UUID it mints);    *)
(* postprocess sends the caller's as given. aidetect, chunk_text and       *)
(* chunk_html send no session_id.                                          *)
(***************************************************************************)
C5_KeyEverywhereSessionWhereTaken ==
    Returned
    => /\ "key" \in DOMAIN Sent
       /\ Sent.key = Self.api_key
       /\ "session_id" \in DOMAIN Sent <=> call.op \in SessionOps
       /\ call.op = "postprocess" => Sent.session_id = Arg("session_id")
       /\ (call.op \in SessionOps /\ call.op # "postprocess") =>
             IF Truthy(Bind(Arg("session_id"), None))
             THEN Sent.session_id = Arg("session_id")
             ELSE IF call.op = "accept_complete"
                  THEN Sent.session_id \in Uuids
                  ELSE Sent.session_id = Self.default_session_id

C5_Witness ==
    /\ Returned
    /\ call.op = "aidetect"
    /\ Sent.key = Self.api_key
    /\ "session_id" \notin DOMAIN Sent

(***************************************************************************)
(* C6. As claimed: a session id the caller supplies, the empty string      *)
(* included, is the session_id transmitted, and the instance's default is  *)
(* used only when the caller supplied none.                                *)
(***************************************************************************)
C6_SuppliedSessionSent ==
    (Returned /\ call.op \in SessionOps /\ Supplied("session_id"))
    => Sent.session_id = Arg("session_id")

(***************************************************************************)
(* C6, amended. A supplied session id that is not empty is the session_id  *)
(* transmitted. In the operations where the session id is optional an      *)
(* empty string counts as absent: the fallback is sent instead (the        *)
(* instance's default in edits, accept_edit, reject_edit, spellcheck and   *)
(* complete). postprocess, where it is required, sends the value as given. *)
(***************************************************************************)
C6_TruthySessionSent ==
    (Returned /\ call.op \in SessionOps)
    => /\ (Supplied("session_id") /\ Arg("session_id") # Str("")) =>
             Sent.session_id = Arg("session_id")
       /\ call.op = "postprocess" => Sent.session_id = Arg("session_id")
       /\ (call.op \in DefaultingOps /\ Arg("session_id") \in {Omitted, None, Str("")}) =>
             Sent.session_id = Self.default_session_id
       /\ (call.op = "accept_complete" /\ Arg("session_id") = Str("")) =>
             Sent.session_id # Str("")

C6_Witness ==
    /\ Returned
    /\ call.op = "edits"
    /\ Arg("session_id") = Str("")
    /\ Sent.session_id = Self.default_session_id

(***************************************************************************)
(* C7. An optional field the caller passes with a value other than None,   *)
(* a falsy one included (False, 0, the empty string, the empty dict), is   *)
(* in the payload with exactly that value.                                 *)
(***************************************************************************)
C7_FalsyOptionalSent ==
    Returned
    => \A p \in OptionalFields :
          Supplied(p) => (p \in DOMAIN Sent /\ Sent[p] = call.args[p])

C7_Witness ==
    /\ Returned
    /\ call.op = "edits"
    /\ Arg("auto_apply") = PyFalse
    /\ "auto_apply" \in DOMAIN Sent
    /\ Sent.auto_apply = PyFalse

(***************************************************************************)
(* C8. As claimed: the payload's fields are exactly key, the session id    *)
(* where the operation has one, the required fields, and the optional      *)
(* fields the caller supplied; auto_apply is not sent by edits(text).      *)
(***************************************************************************)
C8_ExactFields ==
    Returned
    => DOMAIN Sent =
          {"key"} \cup (IF call.op \in SessionOps THEN {"session_id"} ELSE {})
          \cup RequiredFields \cup {p \in OptionalFields : Supplied(p)}

(***************************************************************************)
(* C8, amended. The payload's fields are exactly key, the session id where *)
(* the operation has one, the required fields, the optional fields the     *)
(* caller supplied, and, in edits and spellcheck, auto_apply with the      *)
(* value false when the caller did not pass it.                            *)
(***************************************************************************)
C8_ExactFieldsWithAutoApply ==
    Returned
    => LET defaulted == call.op \in {"edits", "spellcheck"} /\ Arg("auto_apply") = Omitted
       IN  /\ DOMAIN Sent =
                {"key"} \cup (IF call.op \in SessionOps THEN {"session_id"} ELSE {})
                \cup RequiredFields \cup {p \in OptionalFields : Supplied(p)}
                \cup (IF defaulted THEN {"auto_apply"} ELSE {})
           /\ defaulted => Sent.auto_apply = PyFalse

C8_Witness ==
    /\ Returned
    /\ call.op = "edits"
    /\ Arg("auto_apply") = Omitted
    /\ Arg("lang") = Omitted
    /\ Sent.auto_apply = PyFalse
    /\ "lang" \notin DOMAIN Sent

\* The hostname, pathname and timeout a constructor call configures, read
\* from its arguments.
Configured(arg, emptyIsOmitted, default) ==
    IF arg = Omitted \/ (emptyIsOmitted /\ arg = Str("")) THEN default ELSE arg.v

(***************************************************************************)
(* C9. As claimed: the URL posted to is hostname + pathname + suffix, an   *)
(* omitted hostname being 'https://api.sapling.ai' and an omitted pathname *)
(* '/api/v1/', for hostname and pathname omitted or any string, the empty  *)
(* string included.                                                        *)
(***************************************************************************)
C9_UrlIsConcatenation ==
    Returned
    => wire[1].url =
          Str(Configured(ctor[call.client].hostname, FALSE, "https://api.sapling.ai")
              \o Configured(ctor[call.client].pathname, FALSE, "/api/v1/")
              \o Suffix)

(***************************************************************************)
(* C9, amended. The URL posted to is hostname + pathname + suffix, with no *)
(* separator added or removed, an omitted or empty hostname being          *)
(* 'https://api.sapling.ai' and an omitted or empty pathname '/api/v1/'.   *)
(***************************************************************************)
C9_UrlIsConcatenationEmptyAsOmitted ==
    Returned
    => wire[1].url =
          Str(Configured(ctor[call.client].hostname, TRUE, "https://api.sapling.ai")
              \o Configured(ctor[call.client].pathname, TRUE, "/api/v1/")
              \o Suffix)

C9_Witness ==
    /\ Returned
    /\ call.op = "accept_edit"
    /\ ctor[call.client].hostname = Str("")
    /\ ctor[call.client].pathname = Str("/v2/")
    /\ wire[1].url = Str("https://api.sapling.ai/v2/edits/edit-1/accept")

(***************************************************************************)
(* C10. Every call invokes requests.post exactly once, with the configured *)
(* timeout, whatever the outcome; when requests.post raises (a timeout, a  *)
(* connection error, a payload it cannot encode) the caller gets that very *)
(* error, not the status-code error, and no second request is made.        *)
(***************************************************************************)
C10_OnePostWithTimeout ==
    Returned
    => /\ Len(wire) = 1
       /\ wire[1].timeout.t = "int"
       /\ wire[1].timeout.v = Configured(ctor[call.client].timeout, FALSE, "120")
       /\ ~resp.received =>
             /\ outcome.kind = "raise"
             /\ outcome.exc \in {"Timeout", "ConnectionError", "TypeError"}
             /\ outcome.exc = "TypeError" => \E k \in DOMAIN Sent : Sent[k].t = "UUID"
       /\ resp.received => outcome.exc \notin {"Timeout", "ConnectionError", "TypeError"}

C10_Witness ==
    /\ Returned
    /\ call.client = "c2"
    /\ ~resp.received
    /\ Len(wire) = 1
    /\ wire[1].timeout = PyInt(5)
    /\ outcome = Raise("Timeout", "")

(***************************************************************************)
(* C11. After any sequence of calls, whether they succeed, fail on the     *)
(* status or fail in the transport, every instance's api_key, timeout,     *)
(* hostname, pathname, url_endpoint and default_session_id are what its    *)
(* constructor set them to: no call changes its own instance or another.   *)
(***************************************************************************)
C11_ConfigurationUnchanged ==
    \A c \in Clients :
       LET h == Configured(ctor[c].hostname, TRUE, "https://api.sapling.ai")
           p == Configured(ctor[c].pathname, TRUE, "/api/v1/")
       IN  /\ clients[c].api_key = ctor[c].api_key
           /\ clients[c].timeout.v = Configured(ctor[c].timeout, FALSE, "120")
           /\ clients[c].hostname = Str(h)
           /\ clients[c].pathname = Str(p)
           /\ clients[c].url_endpoint = Str(h \o p)
           /\ clients[c].default_session_id = Str("uuid-of-" \o c)

C11_Witness ==
    /\ Returned
    /\ call.client = "c1"
    /\ call.op = "edits"
    /\ Arg("session_id") = Str("doc-1")
    /\ resp.received
    /\ resp.status_code = 500
    /\ clients["c1"].default_session_id = Str("uuid-of-c1")
    /\ clients["c2"].default_session_id = Str("uuid-of-c2")
    /\ clients["c2"].api_key = Str("KEY-2")

(***************************************************************************)
(* C12. In every operation that transmits a session_id, when the caller    *)
(* passes no session id or a string, the session_id placed in the payload  *)
(* is a string, so that encoding the request body cannot fail.             *)
(* accept_complete called without a session id breaks it: the payload      *)
(* holds a UUID object and requests.post raises TypeError.                 *)
(***************************************************************************)
C12_SessionIdIsString ==
    (/\ Returned
     /\ call.op \in SessionOps
     /\ \/ Arg("session_id").t = "str"
        \/ (call.op # "postprocess" /\ Arg("session_id") \in {Omitted, None}))
    => /\ Sent.session_id.t = "str"
       /\ outcome.exc # "TypeError"

====
